---- MODULE Spec2Model ----
(***************************************************************************)
(* A model of the ASCII battle game server (src/server.c): the shared      *)
(* roster players[] / player_count guarded by state_lock, the accept loop  *)
(* of main, one client_handler thread per accepted connection, and         *)
(* broadcast_state_locked.                                                 *)
(*                                                                         *)
(* Granularity.  Every system call (accept, send, recv, close,             *)
(* pthread_create, pthread_mutex_lock, pthread_mutex_unlock) and every     *)
(* store to players[] or player_count is a step of its own, inside a       *)
(* critical section as well as outside: between any two of them the other  *)
(* threads take the steps that need no lock (accept() returning, the       *)
(* unlocked reads of socket_fd, row and col, a close after the unlock).    *)
(* The reads a thread makes while it holds state_lock, and its local       *)
(* computation, belong to the step of the store or call that follows them. *)
(* Descriptors are numbers handed out lowest-free-first, as POSIX does, so *)
(* a closed number can come back as a newer connection.                    *)
(*                                                                         *)
(* cs and log are history variables: cs records, for the critical section  *)
(* in progress, the roster as it was when the lock was taken and what the  *)
(* section has sent and closed so far; log numbers the snapshots in the    *)
(* order they are rendered and lists, per connection, the numbers of the   *)
(* snapshots delivered to it.  ev describes the last step; the step that   *)
(* unlocks publishes the record of its whole critical section in ev.       *)
(***************************************************************************)
EXTENDS Integers, Sequences, FiniteSets, TLC

\* ------------------------------------------------------------ constants
GRID_SIZE == 5
MAX_PLAYERS == 4
MAX_HP == 100
DAMAGE == 20
\* server_fd is the first descriptor after stdin/stdout/stderr, so accepted
\* connections start one above it.
FirstFd == 4

\* ------------------------------------------------------------ bounds
\* A run draws one budget of outside events: connections that arrive, lines
\* that clients send (MOVE with a valid direction, ATTACK, any other line),
\* client ends that are closed, failures of pthread_create and of accept(),
\* cells the placement loop draws and rejects, how many of the free cells
\* (in SpawnOrder) rand() may end a placement on, and how many connections
\* are live: the clients of the first `live` connections send lines and
\* close, and the handler threads of those connections are scheduled; later
\* clients stay silent and later threads do not get to run within the run.
\* A crowded server: many connections, few commands.
CrowdConns == 6
CrowdOther == 1
CrowdCloses == 1
CrowdPicks == 1
CrowdLive == 1
\* A duel: two connections and enough attacks to kill.
DuelConns == 2
DuelAttacks == 6
DuelPicks == 3
DuelLive == 2
\* A skirmish: three connections, one of them moving and closing.
SkirmConns == 3
SkirmMoves == 1
SkirmCloses == 1
SkirmTries == 1
SkirmPicks == 2
SkirmLive == 1
\* A pair: two connections with both threads running, and the failures of
\* accept() and pthread_create.
PairConns == 2
PairMoves == 1
PairOther == 1
PairCreateFail == 1
PairAcceptFail == 1
PairPicks == 2
PairLive == 2
\* An arena: one attacker between two silent neighbours.
ArenaConns == 3
ArenaAttacks == 5
ArenaPicks == 1
ArenaLive == 1

Budgets ==
  { [conns |-> CrowdConns, moves |-> 0, attacks |-> 0, other |-> CrowdOther,
     closes |-> CrowdCloses, cfails |-> 0, afails |-> 0, tries |-> 0,
     picks |-> CrowdPicks, live |-> CrowdLive],
    [conns |-> DuelConns, moves |-> 0, attacks |-> DuelAttacks, other |-> 0,
     closes |-> 0, cfails |-> 0, afails |-> 0, tries |-> 0,
     picks |-> DuelPicks, live |-> DuelLive],
    [conns |-> SkirmConns, moves |-> SkirmMoves, attacks |-> 0, other |-> 0,
     closes |-> SkirmCloses, cfails |-> 0, afails |-> 0, tries |-> SkirmTries,
     picks |-> SkirmPicks, live |-> SkirmLive],
    [conns |-> PairConns, moves |-> PairMoves, attacks |-> 0, other |-> PairOther,
     closes |-> 0, cfails |-> PairCreateFail, afails |-> PairAcceptFail, tries |-> 0,
     picks |-> PairPicks, live |-> PairLive],
    [conns |-> ArenaConns, moves |-> 0, attacks |-> ArenaAttacks, other |-> 0,
     closes |-> 0, cfails |-> 0, afails |-> 0, tries |-> 0,
     picks |-> ArenaPicks, live |-> ArenaLive] }

\* The budgets of the runs progress is checked on.
LiveConns == 2
LiveMoves == 1
LiveAttacks == 1
LiveOther == 1
LiveCloses == 2
LiveCreateFail == 1
LiveAcceptFail == 1
LiveTries == 1
LivePicks == 1
\* a run of arrivals alone, one more than the server has slots
LiveCrowd == 5
\* and a run of attacks by one thread on a silent neighbour
LiveKill == 5

LiveBudgets ==
  { [conns |-> LiveConns, moves |-> 0, attacks |-> 0, other |-> 0,
     closes |-> LiveCloses, cfails |-> 0, afails |-> 0, tries |-> 0,
     picks |-> LivePicks, live |-> LiveConns],
    [conns |-> LiveConns, moves |-> LiveMoves, attacks |-> 0, other |-> LiveOther,
     closes |-> 0, cfails |-> 0, afails |-> 0, tries |-> 0,
     picks |-> LivePicks, live |-> LiveConns],
    [conns |-> LiveConns, moves |-> 0, attacks |-> LiveAttacks, other |-> LiveOther,
     closes |-> 0, cfails |-> LiveCreateFail, afails |-> LiveAcceptFail,
     tries |-> LiveTries, picks |-> LivePicks, live |-> 1],
    [conns |-> LiveCrowd, moves |-> 0, attacks |-> 0, other |-> 0,
     closes |-> 0, cfails |-> 0, afails |-> 0, tries |-> 0,
     picks |-> LivePicks, live |-> 1],
    [conns |-> LiveConns, moves |-> 0, attacks |-> LiveKill, other |-> 0,
     closes |-> 0, cfails |-> 0, afails |-> 0, tries |-> 0,
     picks |-> LivePicks, live |-> 1] }

MaxConns ==
  CHOOSE n \in { b.conns : b \in Budgets \cup LiveBudgets } :
    \A b \in Budgets \cup LiveBudgets : b.conns <= n

Slots == 0 .. (MAX_PLAYERS - 1)
Coords == 0 .. (GRID_SIZE - 1)
Cells == Coords \X Coords
Conns == 1 .. MaxConns
\* the numbers of MaxConns connections and of one accept() that is waiting
FDs == FirstFd .. (FirstFd + MaxConns)
\* the accept loop's id as a holder of state_lock; handler threads are
\* numbered by the connection they were created for
MainId == 0
Threads == 0 .. MaxConns
\* state_lock with no holder
NoHolder == -1
\* socket_fd of a slot without a transport
NoFd == -1

Symbol(i) == <<"A", "B", "C", "D">>[i + 1]

\* ------------------------------------------------------------ the arena
\* Layouts main's obstacle loop can produce (3 to 5 distinct cells).
ObstacleLayouts ==
  { { <<1, 2>>, <<3, 3>>, <<0, 4>> },
    { <<1, 2>>, <<3, 0>>, <<4, 4>>, <<0, 1>>, <<2, 4>> } }

\* The order in which the model lets rand() reach cells when placing.
SpawnOrder ==
  << <<2, 2>>, <<2, 3>>, <<3, 2>>, <<0, 0>>, <<1, 2>>, <<1, 3>>, <<2, 1>>, <<4, 0>> >>

\* ------------------------------------------------------------ lines
Lower == <<"a","b","c","d","e","f","g","h","i","j","k","l","m",
           "n","o","p","q","r","s","t","u","v","w","x","y","z">>
Upper == <<"A","B","C","D","E","F","G","H","I","J","K","L","M",
           "N","O","P","Q","R","S","T","U","V","W","X","Y","Z">>

toupper(ch) ==
  IF \E i \in 1 .. 26 : Lower[i] = ch
    THEN Upper[CHOOSE i \in 1 .. 26 : Lower[i] = ch]
    ELSE ch

UpperSeq(s) == [i \in 1 .. Len(s) |-> toupper(s[i])]

\* The vertical tab (0x0B), which has no escape in a TLA+ string.
VT == ""

\* isspace() in the C locale, which is what sscanf skips and stops at.
IsSpace(ch) == ch \in {" ", "\t", "\n", "\r", "\f", VT}

\* strpbrk(buffer, "\r\n"): the line is cut at its first CR or LF.
StripNewline(s) ==
  LET hits == { i \in 1 .. Len(s) : s[i] \in {"\r", "\n"} }
  IN  IF hits = {} THEN s
      ELSE SubSeq(s, 1, (CHOOSE i \in hits : \A j \in hits : i <= j) - 1)

\* strncasecmp(s, lit, n) == 0
StrNCaseEq(s, lit, n) ==
  LET a == SubSeq(s, 1, IF Len(s) < n THEN Len(s) ELSE n)
      b == SubSeq(lit, 1, IF Len(lit) < n THEN Len(lit) ELSE n)
  IN  UpperSeq(a) = UpperSeq(b)

\* strcasecmp(s, lit) == 0
StrCaseEq(s, lit) == UpperSeq(s) = UpperSeq(lit)

\* sscanf(s, "%15s", out): skip white space, then take up to 15 characters
\* that are not white space; the empty sequence stands for a return value
\* other than 1.
ScanWord(s) ==
  LET starts == { i \in 1 .. Len(s) : ~IsSpace(s[i]) }
  IN  IF starts = {} THEN << >>
      ELSE LET b == CHOOSE i \in starts : \A j \in starts : i <= j
               ends == { i \in b .. Len(s) : IsSpace(s[i]) }
               e == IF ends = {} THEN Len(s)
                    ELSE (CHOOSE i \in ends : \A j \in ends : i <= j) - 1
               e15 == IF e - b + 1 > 15 THEN b + 14 ELSE e
           IN  SubSeq(s, b, e15)

L_MOVE == <<"M", "O", "V", "E">>
L_ATTACK == <<"A", "T", "T", "A", "C", "K">>
L_QUIT == <<"Q", "U", "I", "T">>
L_UP == <<"U", "P">>
L_DOWN == <<"D", "O", "W", "N">>
L_LEFT == <<"L", "E", "F", "T">>
L_RIGHT == <<"R", "I", "G", "H", "T">>

\* The command dispatch of client_handler on one received buffer.
ParseCommand(buffer) ==
  LET line == StripNewline(buffer)
  IN  IF StrNCaseEq(line, L_MOVE, 4)
        THEN LET word == ScanWord(SubSeq(line, 5, Len(line)))
                 direction == UpperSeq(word)
             IN  IF word = << >> THEN [kind |-> "usage", dir |-> "NONE"]
                 ELSE IF direction = L_UP THEN [kind |-> "move", dir |-> "UP"]
                 ELSE IF direction = L_DOWN THEN [kind |-> "move", dir |-> "DOWN"]
                 ELSE IF direction = L_LEFT THEN [kind |-> "move", dir |-> "LEFT"]
                 ELSE IF direction = L_RIGHT THEN [kind |-> "move", dir |-> "RIGHT"]
                 ELSE [kind |-> "invalid", dir |-> "NONE"]
      ELSE IF StrCaseEq(line, L_ATTACK) THEN [kind |-> "attack", dir |-> "NONE"]
      ELSE IF StrCaseEq(line, L_QUIT) THEN [kind |-> "quit", dir |-> "NONE"]
      ELSE [kind |-> "unknown", dir |-> "NONE"]

\* The lines clients send in the model.
InputLines ==
  { <<"M","O","V","E"," ","U","P","\n">>,
    <<"m","o","v","e"," ","d","o","w","n">>,
    <<"M","O","V","E"," ","L","E","F","T","\r","\n">>,
    <<"M","o","v","e"," "," ","R","i","g","h","t"," ","n","o","w">>,
    <<"M","O","V","E","U","P">>,
    <<"M","O","V","E">>,
    <<"M","O","V","E"," ","\n">>,
    <<"M","O","V","E"," ","N","O","R","T","H">>,
    <<"M","O","V","E"," ","\f","U","P","\n">>,
    <<"M","O","V","E"," ","U","P",VT,"X">>,
    <<"M","O","V","E"," ","\f">>,
    <<"M","O","V","E",VT,"d","o","w","n">>,
    <<"A","T","T","A","C","K","\n">>,
    <<"a","t","t","a","c","k">>,
    <<"A","T","T","A","C","K"," ">>,
    <<"Q","U","I","T","\n">>,
    <<"q","u","i","t">>,
    <<"H","E","L","P">>,
    <<"\n">> }

\* The dispatch of every line of the model, computed once.
ParseTable == [l \in InputLines |-> ParseCommand(l)]

\* ------------------------------------------------------------ state
VARIABLES
  players,       \* players[i]: row, col, hp, socket_fd, active
  player_count,  \* the global counter
  obstacles,     \* the set of obstacle cells, fixed at start-up
  state_lock,    \* NoHolder, MainId or the id of a handler thread
  mainT,         \* the accept loop: pc, client_fd (at pc "accept": the number the
                 \* accept() in progress has taken), conn, idx, and the locals of
                 \* its broadcast
  th,            \* th[t]: handler thread t: pc, its locals, and the locals of its
                 \* broadcast
  fdtab,         \* fdtab[fd]: the connection descriptor fd is open on, 0 if closed
  peer,          \* peer[c]: "none" (not arrived), "open", "closed" (client end closed,
                 \* lines sent before may still be unread), "eof" (closed, and a
                 \* recv() has returned 0: nothing is left to read)
  left,          \* what is left of the run's budget of outside events
  ev,            \* what the last step sent and closed
  cs,            \* history: the critical section in progress
  log            \* history: the snapshots rendered and delivered so far

vars ==
  <<players, player_count, obstacles, state_lock, mainT, th, fdtab, peer, left, ev, cs, log>>

\* What the rendering reads of roster pl.
Shown(pl) ==
  [i \in Slots |-> [active |-> pl[i].active, row |-> pl[i].row, col |-> pl[i].col,
                    hp |-> pl[i].hp]]

\* The roster as main initialises it.
InitPlayers ==
  [i \in Slots |-> [row |-> 0, col |-> 0, hp |-> 0, socket_fd |-> NoFd, active |-> 0]]

\* A step that sends nothing, broadcasts nothing and closes nothing.  For a
\* single step: op, the thread t, the slot, the reply sent and whether the
\* sender held the lock, the connection a send reached (to), the close made.
\* For a critical section: the number of broadcasts (nb), the fields the
\* snapshot was rendered from (shown), its number (snap), the connections
\* (rcpt) and slots (rslots) it was delivered to, the slots the delivery
\* pruned, the slots an attack damaged (hits), and every close made.
NoEv ==
  [op |-> "none", t |-> MainId, slot |-> 0, reply |-> "none", locked |-> FALSE,
   to |-> 0, nb |-> 0, pruned |-> {}, rcpt |-> {}, rslots |-> {}, hits |-> {},
   closes |-> {}, shown |-> Shown(InitPlayers), snap |-> 0]

\* No critical section in progress.
NoCs ==
  [sum |-> NoEv,
   was |-> [players |-> InitPlayers, count |-> 0, conn |-> [i \in Slots |-> 0]]]

\* rcv is the connection whose socket a recv() in progress waits on: recv
\* resolves the number sockfd once, when it is called, and the kernel keeps
\* that socket for the call whatever happens to the number afterwards.
\* after is where the thread goes on once it has unlocked; q, attackerR,
\* attackerC and hit are the locals of ATTACK; p and sock are the locals of
\* broadcast_state_locked; reply is the caller-only reply about to be sent.
NoThread ==
  [pc |-> "none", after |-> "none", player_index |-> 0, sockfd |-> NoFd, rcv |-> 0,
   dir |-> "NONE", newR |-> 0, newC |-> 0, reply |-> "none",
   q |-> 0, attackerR |-> 0, attackerC |-> 0, hit |-> 0, p |-> 0, sock |-> NoFd]

\* ------------------------------------------------------------ descriptors
IsOpen(ft, fd) == fd \in FDs /\ ft[fd] # 0

\* close(fd): frees the number when it is open, fails with EBADF otherwise.
CloseFd(ft, fd) == IF IsOpen(ft, fd) THEN [ft EXCEPT ![fd] = 0] ELSE ft

\* What a close(fd) hits: the number and the connection it was open on (0: EBADF).
CloseRec(ft, fd) == <<fd, IF IsOpen(ft, fd) THEN ft[fd] ELSE 0>>

\* The connection a send on number fd goes to (0: the number is not open).
ConnOf(ft, fd) == IF IsOpen(ft, fd) THEN ft[fd] ELSE 0

\* The client end of connection c is closed.
Gone(pr, c) == pr[c] \in {"closed", "eof"}

\* The lowest number that is neither open nor taken by an accept() in
\* progress: the one an accept() called on table ft takes.
LowestFreeFd(ft) ==
  LET free == { fd \in FDs : ft[fd] = 0 }
  IN  CHOOSE fd \in free : \A g \in free : fd <= g

\* ------------------------------------------------------------ rendering
ActiveAt(pl, r, c) == { p \in Slots : pl[p].active = 1 /\ pl[p].row = r /\ pl[p].col = c }

MinOf(S) == CHOOSE x \in S : \A y \in S : x <= y

\* One cell of the grid section: the obstacle mark, overwritten by the first
\* active player found at the cell.
RenderCell(pl, obs, r, c) ==
  IF ActiveAt(pl, r, c) # {} THEN Symbol(MinOf(ActiveAt(pl, r, c)))
  ELSE IF <<r, c>> \in obs THEN "X"
  ELSE "."

RECURSIVE RenderList(_, _)
RenderList(pl, p) ==
  IF p >= MAX_PLAYERS THEN << >>
  ELSE IF pl[p].active = 1
    THEN << [symbol |-> Symbol(p), hp |-> pl[p].hp, row |-> pl[p].row, col |-> pl[p].col] >>
         \o RenderList(pl, p + 1)
    ELSE RenderList(pl, p + 1)

\* state_msg as broadcast_state_locked builds it.
RenderState(pl, obs) ==
  [grid |-> [r \in 1 .. GRID_SIZE |->
               [c \in 1 .. GRID_SIZE |-> RenderCell(pl, obs, r - 1, c - 1)]],
   list |-> RenderList(pl, 0)]

\* ------------------------------------------------------------ start
\* The accept loop at the top of its loop, about to call accept().
AtCall ==
  [pc |-> "call", after |-> "none", client_fd |-> NoFd, conn |-> 0, idx |-> 0,
   p |-> 0, sock |-> NoFd]

\* The server after its set-up, before the first accept.
Started ==
  /\ players = InitPlayers
  /\ player_count = 0
  /\ obstacles \in ObstacleLayouts
  /\ state_lock = NoHolder
  /\ mainT = AtCall
  /\ th = [t \in Conns |-> NoThread]
  /\ fdtab = [fd \in FDs |-> 0]
  /\ peer = [c \in Conns |-> "none"]
  /\ ev = NoEv
  /\ cs = NoCs
  /\ log = [seq |-> 0, got |-> [c \in Conns |-> << >>]]

Init == Started /\ left \in Budgets

\* ------------------------------------------------------------ helpers
Abs(x) == IF x < 0 THEN -x ELSE x

DeltaR(dir) == IF dir = "UP" THEN -1 ELSE IF dir = "DOWN" THEN 1 ELSE 0
DeltaC(dir) == IF dir = "LEFT" THEN -1 ELSE IF dir = "RIGHT" THEN 1 ELSE 0

InBounds(r, c) == r >= 0 /\ r < GRID_SIZE /\ c >= 0 /\ c < GRID_SIZE

\* The scan for another active player on cell (r, c).
OccupiedByOther(pl, idx, r, c) ==
  \E q \in Slots : pl[q].active = 1 /\ q # idx /\ pl[q].row = r /\ pl[q].col = c

\* Adjacent with the diagonal neighbours let in.
Adjacent_WithDiagonals(dr, dc) == Abs(dr) <= 1 /\ Abs(dc) <= 1 /\ <<dr, dc>> # <<0, 0>>

\* The adjacency test of ATTACK.
Adjacent(dr, dc) == (Abs(dr) = 1 /\ dc = 0) \/ (Abs(dc) = 1 /\ dr = 0)

\* FindFreeSlot that keeps scanning and returns the last free slot.
FindFreeSlot_LastFree(pl) ==
  IF \E i \in Slots : pl[i].active = 0
    THEN CHOOSE i \in Slots : pl[i].active = 0 /\ \A j \in Slots : pl[j].active = 0 => j <= i
    ELSE -1

\* The first slot with active = 0, or -1.
FindFreeSlot(pl) ==
  IF \E i \in Slots : pl[i].active = 0
    THEN MinOf({ i \in Slots : pl[i].active = 0 })
    ELSE -1

\* The frame of thread id, and the step that replaces it.
Fr(id) == IF id = MainId THEN mainT ELSE th[id]

SetFr(id, f) ==
  IF id = MainId
    THEN mainT' = f /\ th' = th
    ELSE th' = [th EXCEPT ![id] = f] /\ mainT' = mainT

\* Handler thread t gets to run within the run (the `live` bound); the accept
\* loop always does.
Scheduled(t) == t <= left.live

Runs(id) == id = MainId \/ Scheduled(id)

Ev(op, t, slot, reply, locked, to) ==
  [NoEv EXCEPT !.op = op, !.t = t, !.slot = slot, !.reply = reply, !.locked = locked,
               !.to = to]

EvClose(op, t, slot, rec) ==
  [NoEv EXCEPT !.op = op, !.t = t, !.slot = slot, !.closes = {rec}]

\* The record of a critical section that thread t begins for slot.
Begin(op, t, slot) ==
  [sum |-> [NoEv EXCEPT !.op = op, !.t = t, !.slot = slot],
   was |-> [players |-> players, count |-> player_count,
            conn |-> [i \in Slots |-> ConnOf(fdtab, players[i].socket_fd)]]]

\* ------------------------------------------------------------ broadcast_state_locked
\* The slots from p on that the delivery loop sends to.
Recipients(pl, p) == { i \in Slots : i >= p /\ pl[i].active = 1 /\ pl[i].socket_fd >= 0 }

\* The delivery loop moves on to the first slot from p on that it sends to
\* (reading its socket_fd into sock), or ends.
ToNext(f, pl, p) ==
  IF Recipients(pl, p) = {}
    THEN [f EXCEPT !.pc = "unlock", !.p = 0, !.sock = NoFd]
    ELSE [f EXCEPT !.pc = "send", !.p = MinOf(Recipients(pl, p)),
                   !.sock = pl[MinOf(Recipients(pl, p))].socket_fd]

\* The message is built from the roster as it is.
Render(id) ==
  /\ Runs(id)
  /\ state_lock = id
  /\ Fr(id).pc = "render"
  /\ SetFr(id, ToNext(Fr(id), players, 0))
  /\ cs' = [cs EXCEPT !.sum.nb = @ + 1, !.sum.shown = Shown(players),
                      !.sum.snap = log.seq + 1]
  /\ log' = [log EXCEPT !.seq = @ + 1]
  /\ ev' = NoEv
  /\ UNCHANGED <<players, player_count, obstacles, state_lock, fdtab, peer, left>>

\* Whether send(sock, ...) can return < 0: it does when the number is not
\* open; it may, or may not yet, when the client end is closed.
SendFails(ft, pr, sock) ==
  IF ~IsOpen(ft, sock) THEN {TRUE}
  ELSE IF Gone(pr, ft[sock]) THEN {TRUE, FALSE}
  ELSE {FALSE}

\* send(sock, state_msg, ...) to slot p.
Deliver(id) ==
  /\ Runs(id)
  /\ state_lock = id
  /\ Fr(id).pc = "send"
  /\ \E fails \in SendFails(fdtab, peer, Fr(id).sock) :
       IF fails
         THEN /\ SetFr(id, [Fr(id) EXCEPT !.pc = "b_close"])
              /\ ev' = Ev("deliver", id, Fr(id).p, "none", TRUE, 0)
              /\ UNCHANGED <<cs, log>>
         ELSE /\ SetFr(id, ToNext(Fr(id), players, Fr(id).p + 1))
              /\ ev' = [Ev("deliver", id, Fr(id).p, "none", TRUE, fdtab[Fr(id).sock])
                          EXCEPT !.snap = cs.sum.snap]
              /\ cs' = [cs EXCEPT !.sum.rcpt = @ \cup {fdtab[Fr(id).sock]},
                                  !.sum.rslots = @ \cup {Fr(id).p}]
              /\ log' = [log EXCEPT !.got[fdtab[Fr(id).sock]] = Append(@, cs.sum.snap)]
  /\ UNCHANGED <<players, player_count, obstacles, state_lock, fdtab, peer, left>>

\* The removal the broadcast, the disconnect path, the kill, QUIT and the
\* thread-creation failure path all spell out, one statement a step:
\* close(fd) at pc st[1], socket_fd = -1 at st[2], active = 0 at st[3],
\* player_count-- at st[4], after which the thread goes on with frame done.
Removal(id, st, slot, fd, done) ==
  /\ Runs(id)
  /\ state_lock = id
  /\ Fr(id).pc \in {st[1], st[2], st[3], st[4]}
  /\ IF Fr(id).pc = st[1]
       THEN /\ fdtab' = CloseFd(fdtab, fd)
            /\ cs' = [cs EXCEPT !.sum.closes = @ \cup {CloseRec(fdtab, fd)}]
            /\ ev' = EvClose("remove", id, slot, CloseRec(fdtab, fd))
            /\ SetFr(id, [Fr(id) EXCEPT !.pc = st[2]])
            /\ UNCHANGED <<players, player_count>>
     ELSE IF Fr(id).pc = st[2]
       THEN /\ players' = [players EXCEPT ![slot].socket_fd = NoFd]
            /\ ev' = NoEv
            /\ SetFr(id, [Fr(id) EXCEPT !.pc = st[3]])
            /\ UNCHANGED <<player_count, fdtab, cs>>
     ELSE IF Fr(id).pc = st[3]
       THEN /\ players' = [players EXCEPT ![slot].active = 0]
            /\ cs' = IF st[3] = "b_act" THEN [cs EXCEPT !.sum.pruned = @ \cup {slot}] ELSE cs
            /\ ev' = NoEv
            /\ SetFr(id, [Fr(id) EXCEPT !.pc = st[4]])
            /\ UNCHANGED <<player_count, fdtab>>
       ELSE /\ player_count' = player_count - 1
            /\ ev' = NoEv
            /\ SetFr(id, done)
            /\ UNCHANGED <<players, fdtab, cs>>
  /\ UNCHANGED <<obstacles, state_lock, peer, left, log>>

\* The send to slot p failed: the slot is removed, and the loop goes on.
Prune(id) ==
  Removal(id, <<"b_close", "b_fd", "b_act", "b_cnt">>, Fr(id).p, Fr(id).sock,
          ToNext(Fr(id), players, Fr(id).p + 1))

Broadcast(id) == Render(id) \/ Deliver(id) \/ Prune(id)

\* ------------------------------------------------------------ client_handler
Unlocked == UNCHANGED <<players, player_count, obstacles, state_lock, fdtab, cs, log>>

\* Entry: sockfd is read from the slot, outside the lock.
HandlerStart(t) ==
  /\ Scheduled(t)
  /\ th[t].pc = "start"
  /\ th' = [th EXCEPT ![t].pc = "welcome",
                      ![t].sockfd = players[th[t].player_index].socket_fd]
  /\ ev' = NoEv
  /\ UNCHANGED <<mainT, peer, left>>
  /\ Unlocked

\* The welcome is sent on sockfd.
Welcome(t) ==
  /\ Scheduled(t)
  /\ th[t].pc = "welcome"
  /\ th' = [th EXCEPT ![t].pc = "loop"]
  /\ ev' = Ev("start", t, th[t].player_index, "welcome", state_lock = t,
              ConnOf(fdtab, th[t].sockfd))
  /\ UNCHANGED <<mainT, peer, left>>
  /\ Unlocked

\* The call of recv(sockfd, ...): on a number that is not open it returns -1
\* (EBADF) at once; on an open number the call waits on the socket the number
\* is open on at this moment.
RecvEnter(t) ==
  /\ Scheduled(t)
  /\ th[t].pc = "loop"
  /\ th' = IF IsOpen(fdtab, th[t].sockfd)
             THEN [th EXCEPT ![t].pc = "recv", ![t].rcv = fdtab[th[t].sockfd]]
             ELSE [th EXCEPT ![t].pc = "disc"]
  /\ ev' = NoEv
  /\ UNCHANGED <<mainT, peer, left>>
  /\ Unlocked

\* RecvEnds that takes a closed client end for a quiet one.
RecvEnds_MissesEof(t) == th[t].rcv \notin Conns

\* A recv() in progress can return 0: the client end of its socket is closed.
\* A close of the number by another thread does not end the call.
RecvEnds(t) == th[t].rcv \in Conns /\ Gone(peer, th[t].rcv)

RecvDisconnect(t) ==
  /\ Scheduled(t)
  /\ th[t].pc = "recv"
  /\ RecvEnds(t)
  /\ th' = [th EXCEPT ![t].pc = "disc", ![t].rcv = 0]
  /\ peer' = [peer EXCEPT ![th[t].rcv] = "eof"]
  /\ ev' = NoEv
  /\ UNCHANGED <<mainT, left>>
  /\ Unlocked

\* A line that gets a caller-only reply straight from the parse.
ParseReply(kind) ==
  IF kind = "usage" THEN "usage" ELSE IF kind = "invalid" THEN "invalid" ELSE "unknown"

\* recv() > 0: one line of the client of the socket the call waits on arrives
\* and is dispatched; a line sent before the client end was closed is read
\* after the close, as long as no recv() on the socket has returned 0.
RecvLine(t, line) ==
  /\ Scheduled(t)
  /\ th[t].pc = "recv"
  /\ peer[th[t].rcv] \in {"open", "closed"}
  /\ th[t].rcv <= left.live
  /\ LET cmd == ParseTable[line]
     IN  \/ /\ cmd.kind = "move"
            /\ left.moves > 0
            /\ left' = [left EXCEPT !.moves = @ - 1]
            /\ th' = [th EXCEPT ![t].pc = "move_row", ![t].rcv = 0, ![t].dir = cmd.dir]
         \/ /\ cmd.kind = "attack"
            /\ left.attacks > 0
            /\ left' = [left EXCEPT !.attacks = @ - 1]
            /\ th' = [th EXCEPT ![t].pc = "attack", ![t].rcv = 0]
         \/ /\ cmd.kind = "quit"
            /\ left.other > 0
            /\ left' = [left EXCEPT !.other = @ - 1]
            /\ th' = [th EXCEPT ![t].pc = "quit", ![t].rcv = 0]
         \/ /\ cmd.kind \in {"usage", "invalid", "unknown"}
            /\ left.other > 0
            /\ left' = [left EXCEPT !.other = @ - 1]
            /\ th' = [th EXCEPT ![t].pc = "reply", ![t].rcv = 0,
                                ![t].reply = ParseReply(cmd.kind)]
  /\ ev' = NoEv
  /\ UNCHANGED <<mainT, peer>>
  /\ Unlocked

\* The reply to a line the parse refuses (usage, invalid direction, unknown
\* command), sent on sockfd without the lock.
SendReply(t) ==
  /\ Scheduled(t)
  /\ th[t].pc = "reply"
  /\ th' = [th EXCEPT ![t].pc = "loop", ![t].reply = "none"]
  /\ ev' = Ev("reply", t, th[t].player_index, th[t].reply, state_lock = t,
              ConnOf(fdtab, th[t].sockfd))
  /\ UNCHANGED <<mainT, peer, left>>
  /\ Unlocked

\* The first unlocked read of a MOVE: players[player_index].row.
MoveReadRow(t) ==
  /\ Scheduled(t)
  /\ th[t].pc = "move_row"
  /\ th' = [th EXCEPT ![t].pc = "move_col",
                      ![t].newR = players[th[t].player_index].row + DeltaR(th[t].dir)]
  /\ ev' = NoEv
  /\ UNCHANGED <<mainT, peer, left>>
  /\ Unlocked

\* The second unlocked read of a MOVE: players[player_index].col.
MoveReadCol(t) ==
  /\ Scheduled(t)
  /\ th[t].pc = "move_col"
  /\ th' = [th EXCEPT ![t].pc = "move",
                      ![t].newC = players[th[t].player_index].col + DeltaC(th[t].dir)]
  /\ ev' = NoEv
  /\ UNCHANGED <<mainT, peer, left>>
  /\ Unlocked

LockPcs == {"move", "attack", "quit", "disc", "cleanup"}

\* Where a handler's critical section starts, and where the thread goes on
\* after its unlock.
FirstPc(pc) ==
  CASE pc = "move" -> "m_check"
    [] pc = "attack" -> "a_init"
    [] pc = "quit" -> "q_close"
    [] pc = "disc" -> "d_check"
    [] pc = "cleanup" -> "c_check"

AfterPc(pc) ==
  CASE pc = "move" -> "loop"
    [] pc = "attack" -> "loop"
    [] pc = "quit" -> "cleanup"
    [] pc = "disc" -> "cleanup"
    [] pc = "cleanup" -> "close"

\* pthread_mutex_lock(&state_lock) of a handler thread.
HandlerLock(t) ==
  /\ Scheduled(t)
  /\ th[t].pc \in LockPcs
  /\ state_lock = NoHolder
  /\ state_lock' = t
  /\ th' = [th EXCEPT ![t].pc = FirstPc(th[t].pc), ![t].after = AfterPc(th[t].pc)]
  /\ cs' = Begin(th[t].pc, t, th[t].player_index)
  /\ ev' = NoEv
  /\ UNCHANGED <<players, player_count, obstacles, mainT, fdtab, peer, left, log>>

\* pthread_mutex_unlock(&state_lock) of a handler thread.
HandlerUnlock(t) ==
  /\ Scheduled(t)
  /\ th[t].pc = "unlock"
  /\ state_lock = t
  /\ state_lock' = NoHolder
  /\ th' = [th EXCEPT ![t] = [NoThread EXCEPT !.pc = th[t].after,
                                              !.player_index = th[t].player_index,
                                              !.sockfd = th[t].sockfd]]
  /\ ev' = cs.sum
  /\ cs' = NoCs
  /\ UNCHANGED <<players, player_count, obstacles, mainT, fdtab, peer, left, log>>

\* MoveBlocked without the scan for another player on the target cell.
MoveBlocked_NoOccupancyScan(pl, obs, idx, r, c) ==
  IF ~InBounds(r, c) THEN "oob"
  ELSE IF <<r, c>> \in obs THEN "obstacle"
  ELSE "none"

\* The reason a MOVE to (r, c) by slot idx is refused, or "none".
MoveBlocked(pl, obs, idx, r, c) ==
  IF ~InBounds(r, c) THEN "oob"
  ELSE IF <<r, c>> \in obs THEN "obstacle"
  ELSE IF OccupiedByOther(pl, idx, r, c) THEN "occupied"
  ELSE "none"

\* MoveCheck that leaves the refused branch without pthread_mutex_unlock.
MoveCheck_RefusalSkipsUnlock(t) ==
  /\ Scheduled(t)
  /\ th[t].pc = "m_check"
  /\ state_lock = t
  /\ IF MoveBlocked(players, obstacles, th[t].player_index, th[t].newR, th[t].newC) # "none"
       THEN /\ th' = [th EXCEPT ![t].pc = "loop"]
            /\ ev' = Ev("reply", t, th[t].player_index,
                        MoveBlocked(players, obstacles, th[t].player_index,
                                    th[t].newR, th[t].newC),
                        TRUE, ConnOf(fdtab, th[t].sockfd))
            /\ cs' = [cs EXCEPT !.sum.reply = ev'.reply, !.sum.locked = TRUE]
            /\ UNCHANGED players
       ELSE /\ th' = [th EXCEPT ![t].pc = "m_col"]
            /\ players' = [players EXCEPT ![th[t].player_index].row = th[t].newR]
            /\ ev' = NoEv
            /\ UNCHANGED cs
  /\ UNCHANGED <<player_count, obstacles, state_lock, mainT, fdtab, peer, left, log>>

\* The checks of MOVE under the lock: a refusal sends its reply on sockfd; an
\* accepted move stores the new row.
MoveCheck(t) ==
  /\ Scheduled(t)
  /\ th[t].pc = "m_check"
  /\ state_lock = t
  /\ IF MoveBlocked(players, obstacles, th[t].player_index, th[t].newR, th[t].newC) # "none"
       THEN /\ th' = [th EXCEPT ![t].pc = "unlock"]
            /\ ev' = Ev("reply", t, th[t].player_index,
                        MoveBlocked(players, obstacles, th[t].player_index,
                                    th[t].newR, th[t].newC),
                        TRUE, ConnOf(fdtab, th[t].sockfd))
            /\ cs' = [cs EXCEPT !.sum.reply = ev'.reply, !.sum.locked = TRUE]
            /\ UNCHANGED players
       ELSE /\ th' = [th EXCEPT ![t].pc = "m_col"]
            /\ players' = [players EXCEPT ![th[t].player_index].row = th[t].newR]
            /\ ev' = NoEv
            /\ UNCHANGED cs
  /\ UNCHANGED <<player_count, obstacles, state_lock, mainT, fdtab, peer, left, log>>

\* The store of the new col, after which the move is broadcast.
MoveCol(t) ==
  /\ Scheduled(t)
  /\ th[t].pc = "m_col"
  /\ state_lock = t
  /\ players' = [players EXCEPT ![th[t].player_index].col = th[t].newC]
  /\ th' = [th EXCEPT ![t].pc = "render"]
  /\ ev' = NoEv
  /\ UNCHANGED <<player_count, obstacles, state_lock, mainT, fdtab, peer, left, cs, log>>

\* ATTACK reads the attacker's position and clears hit.
AttackInit(t) ==
  /\ Scheduled(t)
  /\ th[t].pc = "a_init"
  /\ state_lock = t
  /\ th' = [th EXCEPT ![t].pc = "a_scan", ![t].q = 0, ![t].hit = 0,
                      ![t].attackerR = players[th[t].player_index].row,
                      ![t].attackerC = players[th[t].player_index].col]
  /\ ev' = NoEv
  /\ UNCHANGED <<players, player_count, obstacles, state_lock, mainT, fdtab, peer, left,
                 cs, log>>

\* The slots from q on that the scan of ATTACK damages.
Targets(pl, idx, attackerR, attackerC, q) ==
  { i \in Slots : /\ i >= q
                  /\ pl[i].active = 1
                  /\ i # idx
                  /\ Adjacent(pl[i].row - attackerR, pl[i].col - attackerC) }

\* Dead that never holds: no target is removed.
Dead_Never(hp) == FALSE

\* Dead that holds below zero only.
Dead_BelowZero(hp) == hp < 0

\* The test that removes a damaged target from the game.
Dead(hp) == hp <= 0

\* NoTarget that holds whatever the scan hit.
NoTarget_Always(hit) == TRUE

\* The test that sends the caller-only reply instead of a broadcast.
NoTarget(hit) == hit = 0

\* The scan of ATTACK up to its next store: the damage to the next adjacent
\* target, or, at the end of the scan, the reply when nothing was hit.
AttackScan(t) ==
  /\ Scheduled(t)
  /\ th[t].pc = "a_scan"
  /\ state_lock = t
  /\ IF Targets(players, th[t].player_index, th[t].attackerR, th[t].attackerC, th[t].q) # {}
       THEN \E q \in {MinOf(Targets(players, th[t].player_index, th[t].attackerR,
                                    th[t].attackerC, th[t].q))} :
              /\ players' = [players EXCEPT ![q].hp = @ - DAMAGE]
              /\ th' = IF Dead(players[q].hp - DAMAGE)
                         THEN [th EXCEPT ![t].pc = "k_zero", ![t].q = q]
                         ELSE [th EXCEPT ![t].hit = 1, ![t].q = q + 1]
              /\ cs' = [cs EXCEPT !.sum.hits = @ \cup {q}]
              /\ ev' = NoEv
     ELSE IF NoTarget(th[t].hit)
       THEN /\ th' = [th EXCEPT ![t].pc = "unlock"]
            /\ ev' = Ev("reply", t, th[t].player_index, "notarget", TRUE,
                        ConnOf(fdtab, th[t].sockfd))
            /\ cs' = [cs EXCEPT !.sum.reply = "notarget", !.sum.locked = TRUE]
            /\ UNCHANGED players
       ELSE /\ th' = [th EXCEPT ![t].pc = "render"]
            /\ ev' = NoEv
            /\ UNCHANGED <<players, cs>>
  /\ UNCHANGED <<player_count, obstacles, state_lock, mainT, fdtab, peer, left, log>>

\* The target is dead: its hp is set to 0.
KillClamp(t) ==
  /\ Scheduled(t)
  /\ th[t].pc = "k_zero"
  /\ state_lock = t
  /\ players' = [players EXCEPT ![th[t].q].hp = 0]
  /\ th' = [th EXCEPT ![t].pc = "k_close"]
  /\ ev' = NoEv
  /\ UNCHANGED <<player_count, obstacles, state_lock, mainT, fdtab, peer, left, cs, log>>

\* The dead target is removed, hit is set and the scan goes on.
KillRemove(t) ==
  Removal(t, <<"k_close", "k_fd", "k_act", "k_cnt">>, th[t].q,
          players[th[t].q].socket_fd,
          [th[t] EXCEPT !.pc = "a_scan", !.hit = 1, !.q = th[t].q + 1])

\* QUIT removes the acting slot, then broadcasts.
QuitRemove(t) ==
  Removal(t, <<"q_close", "q_fd", "q_act", "q_cnt">>, th[t].player_index,
          players[th[t].player_index].socket_fd,
          [th[t] EXCEPT !.pc = "render"])

\* recv() <= 0: the test of active under the lock.
DiscCheck(t) ==
  /\ Scheduled(t)
  /\ th[t].pc = "d_check"
  /\ state_lock = t
  /\ th' = [th EXCEPT ![t].pc = IF players[th[t].player_index].active = 1
                                  THEN "d_close" ELSE "unlock"]
  /\ ev' = NoEv
  /\ UNCHANGED <<players, player_count, obstacles, state_lock, mainT, fdtab, peer, left,
                 cs, log>>

\* The disconnect path removes the slot, then broadcasts.
DiscRemove(t) ==
  Removal(t, <<"d_close", "d_fd", "d_act", "d_cnt">>, th[t].player_index,
          players[th[t].player_index].socket_fd,
          [th[t] EXCEPT !.pc = "render"])

\* The cleanup after the loop: the guarded active = 0, then player_count--.
CleanupGuarded(t) ==
  /\ Scheduled(t)
  /\ th[t].pc \in {"c_check", "c_cnt"}
  /\ state_lock = t
  /\ IF th[t].pc = "c_cnt"
       THEN /\ player_count' = player_count - 1
            /\ th' = [th EXCEPT ![t].pc = "unlock"]
            /\ UNCHANGED players
     ELSE IF players[th[t].player_index].active = 1
       THEN /\ players' = [players EXCEPT ![th[t].player_index].active = 0]
            /\ th' = [th EXCEPT ![t].pc = "c_cnt"]
            /\ UNCHANGED player_count
       ELSE /\ th' = [th EXCEPT ![t].pc = "unlock"]
            /\ UNCHANGED <<players, player_count>>
  /\ ev' = NoEv
  /\ UNCHANGED <<obstacles, state_lock, mainT, fdtab, peer, left, cs, log>>

\* After the unlock: close(sockfd) on the thread's own copy of the descriptor,
\* and the thread ends.
CleanupClose(t) ==
  /\ Scheduled(t)
  /\ th[t].pc = "close"
  /\ fdtab' = CloseFd(fdtab, th[t].sockfd)
  /\ ev' = EvClose("close", t, th[t].player_index, CloseRec(fdtab, th[t].sockfd))
  /\ th' = [th EXCEPT ![t] = [NoThread EXCEPT !.pc = "done"]]
  /\ UNCHANGED <<players, player_count, obstacles, state_lock, mainT, peer, left, cs, log>>

\* ------------------------------------------------------------ main
\* The call of accept(): it takes the lowest free number before it waits for a
\* connection, and keeps it whatever is closed while it waits.
AcceptCall ==
  /\ mainT.pc = "call"
  /\ mainT' = [mainT EXCEPT !.pc = "accept", !.client_fd = LowestFreeFd(fdtab)]
  /\ ev' = NoEv
  /\ UNCHANGED <<th, peer, left>>
  /\ Unlocked

\* accept() returns: a new connection is opened on the number the call took.
\* It takes no lock, so it returns at any point of another thread's critical
\* section.
Accept ==
  /\ mainT.pc = "accept"
  /\ left.conns > 0
  /\ left' = [left EXCEPT !.conns = @ - 1]
  /\ \E c \in Conns :
       /\ peer[c] = "none"
       /\ \A d \in Conns : d < c => peer[d] # "none"
       /\ peer' = [peer EXCEPT ![c] = "open"]
       /\ fdtab' = [fdtab EXCEPT ![mainT.client_fd] = c]
       /\ mainT' = [mainT EXCEPT !.pc = "join", !.conn = c]
  /\ ev' = NoEv
  /\ UNCHANGED <<players, player_count, obstacles, state_lock, th, cs, log>>

\* accept() returns -1: the number it took stays free and the loop calls
\* accept() again.
AcceptFails ==
  /\ mainT.pc = "accept"
  /\ left.afails > 0
  /\ left' = [left EXCEPT !.afails = @ - 1]
  /\ mainT' = AtCall
  /\ ev' = NoEv
  /\ UNCHANGED <<th, peer>>
  /\ Unlocked

\* pthread_mutex_lock(&state_lock) of the accept loop.
MainLock ==
  /\ mainT.pc \in {"join", "create_fail"}
  /\ state_lock = NoHolder
  /\ state_lock' = MainId
  /\ mainT' = IF mainT.pc = "join"
                THEN [mainT EXCEPT !.pc = "j_check"]
                ELSE [mainT EXCEPT !.pc = "f_close", !.after = "call"]
  /\ cs' = Begin(mainT.pc, MainId, mainT.idx)
  /\ ev' = NoEv
  /\ UNCHANGED <<players, player_count, obstacles, th, fdtab, peer, left, log>>

\* pthread_mutex_unlock(&state_lock) of the accept loop.
MainUnlock ==
  /\ mainT.pc = "unlock"
  /\ state_lock = MainId
  /\ state_lock' = NoHolder
  /\ mainT' = IF mainT.after = "call"
                THEN AtCall
                ELSE [mainT EXCEPT !.pc = mainT.after, !.after = "none", !.p = 0,
                                   !.sock = NoFd]
  /\ ev' = cs.sum
  /\ cs' = NoCs
  /\ UNCHANGED <<players, player_count, obstacles, th, fdtab, peer, left, log>>

\* The capacity check and the slot scan; a join that is let in stores
\* active = 1 in its slot.
JoinCheck ==
  /\ mainT.pc = "j_check"
  /\ state_lock = MainId
  /\ IF player_count >= MAX_PLAYERS \/ FindFreeSlot(players) = -1
       THEN /\ mainT' = [mainT EXCEPT !.pc = "unlock",
                                      !.after = IF player_count >= MAX_PLAYERS
                                                  THEN "full" ELSE "noslot"]
            /\ cs' = [cs EXCEPT !.sum.op = "reject"]
            /\ UNCHANGED players
       ELSE /\ mainT' = [mainT EXCEPT !.pc = "j_fd", !.after = "create",
                                      !.idx = FindFreeSlot(players)]
            /\ cs' = [cs EXCEPT !.sum.slot = FindFreeSlot(players)]
            /\ players' = [players EXCEPT ![FindFreeSlot(players)].active = 1]
  /\ ev' = NoEv
  /\ UNCHANGED <<player_count, obstacles, state_lock, th, fdtab, peer, left, log>>

\* The stores of socket_fd = client_fd and hp = MAX_HP.
JoinOccupy ==
  /\ mainT.pc \in {"j_fd", "j_hp"}
  /\ state_lock = MainId
  /\ IF mainT.pc = "j_fd"
       THEN /\ players' = [players EXCEPT ![mainT.idx].socket_fd = mainT.client_fd]
            /\ mainT' = [mainT EXCEPT !.pc = "j_hp"]
       ELSE /\ players' = [players EXCEPT ![mainT.idx].hp = MAX_HP]
            /\ mainT' = [mainT EXCEPT !.pc = "j_row"]
  /\ ev' = NoEv
  /\ UNCHANGED <<player_count, obstacles, state_lock, th, fdtab, peer, left, cs, log>>

\* The cells the placement loop can end on for slot idx: cells that are no
\* obstacle and hold no other active player; the model lets rand() reach the
\* first `picks` of them in SpawnOrder.
PlacementCells(pl, obs, idx, picks) ==
  LET ok == { i \in 1 .. Len(SpawnOrder) :
                /\ SpawnOrder[i] \notin obs
                /\ ~OccupiedByOther(pl, idx, SpawnOrder[i][1], SpawnOrder[i][2]) }
  IN  { SpawnOrder[i] : i \in { j \in ok : Cardinality({ k \in ok : k < j }) < picks } }

\* The cells of SpawnOrder the placement loop draws and rejects.
RejectedCells(pl, obs, idx) ==
  { SpawnOrder[i] : i \in { j \in 1 .. Len(SpawnOrder) :
                              \/ SpawnOrder[j] \in obs
                              \/ OccupiedByOther(pl, idx, SpawnOrder[j][1], SpawnOrder[j][2]) } }

\* The cells rand() may draw in this pass of the placement loop.
DrawnCells(pl, obs, idx) ==
  PlacementCells(pl, obs, idx, left.picks)
    \cup (IF left.tries > 0 THEN RejectedCells(pl, obs, idx) ELSE {})

\* The placement loop: the store of a drawn row, then the store of a drawn
\* col and the test of the cell, which sends the loop round again when the
\* cell is an obstacle or holds another active player.
JoinPlace ==
  /\ mainT.pc \in {"j_row", "j_col"}
  /\ state_lock = MainId
  /\ IF mainT.pc = "j_row"
       THEN /\ \E cell \in DrawnCells(players, obstacles, mainT.idx) :
                 players' = [players EXCEPT ![mainT.idx].row = cell[1]]
            /\ mainT' = [mainT EXCEPT !.pc = "j_col"]
            /\ UNCHANGED left
       ELSE \E cell \in { d \in DrawnCells(players, obstacles, mainT.idx) :
                            d[1] = players[mainT.idx].row } :
              /\ players' = [players EXCEPT ![mainT.idx].col = cell[2]]
              /\ IF cell \in obstacles
                      \/ OccupiedByOther(players, mainT.idx, cell[1], cell[2])
                   THEN /\ mainT' = [mainT EXCEPT !.pc = "j_row"]
                        /\ left' = [left EXCEPT !.tries = @ - 1]
                   ELSE /\ mainT' = [mainT EXCEPT !.pc = "j_count"]
                        /\ UNCHANGED left
  /\ ev' = NoEv
  /\ UNCHANGED <<player_count, obstacles, state_lock, th, fdtab, peer, cs, log>>

\* player_count++, after which the join is broadcast.
JoinCount ==
  /\ mainT.pc = "j_count"
  /\ state_lock = MainId
  /\ player_count' = player_count + 1
  /\ mainT' = [mainT EXCEPT !.pc = "render"]
  /\ ev' = NoEv
  /\ UNCHANGED <<players, obstacles, state_lock, th, fdtab, peer, left, cs, log>>

\* A refusal after the unlock: the reply is sent on client_fd.
RefuseSend ==
  /\ mainT.pc \in {"full", "noslot"}
  /\ mainT' = [mainT EXCEPT !.pc = "r_close"]
  /\ ev' = Ev("refuse", MainId, 0, mainT.pc, state_lock = MainId,
              ConnOf(fdtab, mainT.client_fd))
  /\ UNCHANGED <<th, peer, left>>
  /\ Unlocked

\* close(client_fd) of a refusal.
RefuseClose ==
  /\ mainT.pc = "r_close"
  /\ fdtab' = CloseFd(fdtab, mainT.client_fd)
  /\ ev' = EvClose("refuse_close", MainId, 0, CloseRec(fdtab, mainT.client_fd))
  /\ mainT' = AtCall
  /\ UNCHANGED <<players, player_count, obstacles, state_lock, th, peer, left, cs, log>>

\* pthread_create succeeds: the handler thread for the connection starts.
CreateThread ==
  /\ mainT.pc = "create"
  /\ th' = [th EXCEPT ![mainT.conn] = [NoThread EXCEPT !.pc = "start",
                                                       !.player_index = mainT.idx]]
  /\ mainT' = AtCall
  /\ ev' = NoEv
  /\ UNCHANGED <<peer, left>>
  /\ Unlocked

\* pthread_create fails.
CreateFails ==
  /\ mainT.pc = "create"
  /\ left.cfails > 0
  /\ left' = [left EXCEPT !.cfails = @ - 1]
  /\ mainT' = [mainT EXCEPT !.pc = "create_fail"]
  /\ ev' = NoEv
  /\ UNCHANGED <<th, peer>>
  /\ Unlocked

\* The cleanup of the slot after a failed pthread_create.
CreateFailRemove ==
  Removal(MainId, <<"f_close", "f_fd", "f_act", "f_cnt">>, mainT.idx,
          players[mainT.idx].socket_fd, [mainT EXCEPT !.pc = "unlock"])

\* ------------------------------------------------------------ clients
\* The client end of connection c is closed (no QUIT is sent).
ClientClose(c) ==
  /\ peer[c] = "open"
  /\ c <= left.live
  /\ \/ \E fd \in FDs : fdtab[fd] = c
     \/ \E t \in Conns : th[t].pc = "recv" /\ th[t].rcv = c
  /\ left.closes > 0
  /\ left' = [left EXCEPT !.closes = @ - 1]
  /\ peer' = [peer EXCEPT ![c] = "closed"]
  /\ ev' = NoEv
  /\ UNCHANGED <<players, player_count, obstacles, state_lock, mainT, th, fdtab, cs, log>>

\* ------------------------------------------------------------ the system
Handler(t) ==
  \/ HandlerStart(t)
  \/ Welcome(t)
  \/ RecvEnter(t)
  \/ RecvDisconnect(t)
  \/ \E line \in InputLines : RecvLine(t, line)
  \/ SendReply(t)
  \/ MoveReadRow(t)
  \/ MoveReadCol(t)
  \/ HandlerLock(t)
  \/ MoveCheck(t)
  \/ MoveCol(t)
  \/ AttackInit(t)
  \/ AttackScan(t)
  \/ KillClamp(t)
  \/ KillRemove(t)
  \/ QuitRemove(t)
  \/ DiscCheck(t)
  \/ DiscRemove(t)
  \/ CleanupGuarded(t)
  \/ HandlerUnlock(t)
  \/ CleanupClose(t)

Main ==
  \/ AcceptCall
  \/ Accept
  \/ AcceptFails
  \/ MainLock
  \/ JoinCheck
  \/ JoinOccupy
  \/ JoinPlace
  \/ JoinCount
  \/ MainUnlock
  \/ RefuseSend
  \/ RefuseClose
  \/ CreateThread
  \/ CreateFails
  \/ CreateFailRemove

Next ==
  \/ Main
  \/ \E t \in Conns : Handler(t)
  \/ \E id \in Threads : Broadcast(id)
  \/ \E c \in Conns : ClientClose(c)

Spec == Init /\ [][Next]_vars

TypeOK ==
  /\ \A i \in Slots : /\ players[i].row \in Coords
                      /\ players[i].col \in Coords
                      /\ players[i].active \in {0, 1}
                      /\ players[i].socket_fd \in FDs \cup {NoFd}
  /\ state_lock \in {NoHolder} \cup Threads

\* ------------------------------------------------------------ progress
InitLive == Started /\ left \in LiveBudgets

\* From some moment on no client sends a line and no connection arrives.
Silence ==
  /\ left.conns + left.moves + left.attacks + left.other > 0
  /\ left' = [left EXCEPT !.conns = 0, !.moves = 0, !.attacks = 0, !.other = 0]
  /\ ev' = NoEv
  /\ UNCHANGED <<mainT, th, peer>>
  /\ Unlocked

NextLive == Next \/ Silence

\* What a thread does on its own once it is scheduled: everything but waiting
\* in recv for its client to send a line or to close.  RecvDisconnect is the
\* return of a recv whose client end is closed already.
HandlerProgress(t) ==
  \/ HandlerStart(t)
  \/ Welcome(t)
  \/ RecvEnter(t)
  \/ RecvDisconnect(t)
  \/ SendReply(t)
  \/ MoveReadRow(t)
  \/ MoveReadCol(t)
  \/ HandlerLock(t)
  \/ MoveCheck(t)
  \/ MoveCol(t)
  \/ AttackInit(t)
  \/ AttackScan(t)
  \/ KillClamp(t)
  \/ KillRemove(t)
  \/ QuitRemove(t)
  \/ DiscCheck(t)
  \/ DiscRemove(t)
  \/ CleanupGuarded(t)
  \/ Broadcast(t)
  \/ HandlerUnlock(t)
  \/ CleanupClose(t)

\* What the accept loop does on its own once a connection has arrived.
MainProgress ==
  \/ AcceptCall
  \/ MainLock
  \/ JoinCheck
  \/ JoinOccupy
  \/ JoinPlace
  \/ JoinCount
  \/ Broadcast(MainId)
  \/ MainUnlock
  \/ RefuseSend
  \/ RefuseClose
  \/ CreateThread
  \/ CreateFailRemove

\* Threads that can run do run (a send returns, a lock that stays free is
\* taken); clients and arriving connections owe nothing.
Fairness == WF_vars(MainProgress) /\ \A t \in 1 .. LiveConns : WF_vars(HandlerProgress(t))

SpecLive == InitLive /\ [][NextLive]_vars /\ Fairness

\* ------------------------------------------------------------ observations
ActiveSlots == { i \in Slots : players[i].active = 1 }

\* The message of the last broadcast (where ev.nb = 1).
LastMsg == RenderState(ev.shown, obstacles)

ListedInMsg(m, i) ==
  \/ \E k \in 1 .. Len(m.list) : m.list[k].symbol = Symbol(i)
  \/ \E r \in 1 .. GRID_SIZE : \E c \in 1 .. GRID_SIZE : m.grid[r][c] = Symbol(i)

\* The connection slot i's descriptor is open on, 0 when it is on none.
ConnOfSlot(i) == ConnOf(fdtab, players[i].socket_fd)

\* The roster, the counter and the connection of every slot as they were
\* when the critical section in progress took the lock.
Was == cs.was

DirOffset(d) ==
  CASE d = "UP" -> <<-1, 0>>
    [] d = "DOWN" -> <<1, 0>>
    [] d = "LEFT" -> <<0, -1>>
    [] d = "RIGHT" -> <<0, 1>>
    [] OTHER -> <<0, 0>>

CallerOnlyErrors ==
  {"usage", "invalid", "oob", "obstacle", "occupied", "notarget", "unknown"}

\* Every active slot of roster pl stands on a cell of the grid that is no
\* obstacle, and no two active slots stand on the same cell.
CellsValid(pl) ==
  \A i \in Slots :
    pl[i].active = 1 =>
      /\ pl[i].row \in 0 .. (GRID_SIZE - 1)
      /\ pl[i].col \in 0 .. (GRID_SIZE - 1)
      /\ <<pl[i].row, pl[i].col>> \notin obstacles
      /\ \A j \in Slots \ {i} :
           pl[j].active = 1 => <<pl[j].row, pl[j].col>> # <<pl[i].row, pl[i].col>>

\* No client sends a further line and no further connection arrives.
Quiet == left.conns = 0 /\ left.moves = 0 /\ left.attacks = 0 /\ left.other = 0

\* ------------------------------------------------------------ claims
\* C1: in every reachable state every active slot stands on a cell of the 5x5
\* grid that is no obstacle, and no two active slots stand on the same cell.
C1_ActiveCellsValid == CellsValid(players)

\* C1 as amended: whenever state_lock is not held, every active slot stands on
\* a cell of the 5x5 grid that is no obstacle, and no two active slots stand
\* on the same cell.  (While a join holds the lock its slot is active before
\* it is placed, and holds every cell the placement loop draws and rejects.)
C1_ActiveCellsValidUnlocked == state_lock = NoHolder => CellsValid(players)

\* C1 witness: a MOVE has just been committed and unlocked while two other
\* slots are active.
C1_Witness ==
  /\ ev.op = "move"
  /\ ev.nb = 1
  /\ state_lock = NoHolder
  /\ Cardinality(ActiveSlots \ {ev.slot}) >= 2

\* C2: whenever state_lock is not held, player_count is the number of slots
\* with active = 1.
C2_CountMatchesActive ==
  state_lock = NoHolder => player_count = Cardinality(ActiveSlots)

\* C3: a QUIT, a disconnect, an end-of-session cleanup or a thread-creation
\* failure cleanup that runs for a slot already freed changes no active flag
\* and leaves player_count alone.
C3_FreeIsIdempotent ==
  [][ (ev'.op \in {"quit", "disc", "cleanup", "create_fail"}
         /\ Was.players[ev'.slot].active = 0)
      => /\ \A i \in Slots : players'[i].active = Was.players[i].active
         /\ player_count' = Was.count ]_vars

\* C4: a command that gets a caller-only reply (usage, invalid direction, out
\* of bounds, obstacle, occupied cell, no target, unknown command) changes no
\* field of any slot, leaves player_count alone, closes nothing and
\* broadcasts nothing: neither the step that sends the reply nor, for a reply
\* sent under the lock, the critical section as a whole.
C4_CallerOnlyChangesNothing ==
  /\ [][ (ev'.op = "reply" /\ ev'.reply \in CallerOnlyErrors)
         => /\ players' = players
            /\ player_count' = player_count
            /\ fdtab' = fdtab
            /\ log'.seq = log.seq ]_vars
  /\ [][ (ev'.op \in {"move", "attack"} /\ ev'.reply \in CallerOnlyErrors)
         => /\ players' = Was.players
            /\ player_count' = Was.count
            /\ ev'.closes = {}
            /\ ev'.nb = 0 ]_vars

\* C4 witness: a MOVE has just been refused because another active player
\* stands on the target cell.
C4_Witness ==
  /\ ev.op = "move"
  /\ ev.reply = "occupied"
  /\ Cardinality(ActiveSlots) >= 2

\* C5: an accepted MOVE puts the acting slot one step in the named direction
\* from the position the slot held when the move was committed, moves no other
\* slot, changes no health and broadcasts once.
C5_MoveFromCommittedPosition ==
  [][ (ev'.op = "move" /\ ev'.reply = "none")
      => LET i == ev'.slot
             d == DirOffset(th[ev'.t].dir)
         IN  /\ players'[i].row = Was.players[i].row + d[1]
             /\ players'[i].col = Was.players[i].col + d[2]
             /\ \A j \in Slots \ {i} : /\ players'[j].row = Was.players[j].row
                                       /\ players'[j].col = Was.players[j].col
             /\ \A j \in Slots : players'[j].hp = Was.players[j].hp
             /\ ev'.nb = 1 ]_vars

\* C6: an ATTACK takes exactly DAMAGE from every other active slot at Manhattan
\* distance 1 from the attacker, once, and changes no other slot's health,
\* whatever the scan order and whichever targets die in the same attack.
C6_AttackHitsExactlyAdjacent ==
  [][ ev'.op = "attack"
      => \A q \in Slots :
           players'[q].hp =
             IF /\ q # ev'.slot
                /\ Was.players[q].active = 1
                /\ Abs(Was.players[q].row - Was.players[ev'.slot].row)
                     + Abs(Was.players[q].col - Was.players[ev'.slot].col) = 1
               THEN Was.players[q].hp - DAMAGE
               ELSE Was.players[q].hp ]_vars

\* C6 witness: one ATTACK has hit two targets, the first of which died in it
\* while the second, scanned after the death, stays in the game.
C6_Witness ==
  /\ ev.op = "attack"
  /\ ev.nb = 1
  /\ \E q, r \in ev.hits :
       /\ q < r
       /\ players[q].hp = 0
       /\ players[q].active = 0
       /\ players[r].hp > 0
       /\ players[r].active = 1

\* C7: a slot an ATTACK brings to hp <= 0 ends that attack with hp = 0, freed
\* (active = 0, descriptor closed and cleared, player_count lowered with it),
\* and the one broadcast of that attack, rendered after the removal, neither
\* lists it nor is delivered to it.
C7_DeadFreedBeforeBroadcast ==
  [][ ev'.op = "attack"
      => /\ \A q \in ev'.hits :
              (Was.players[q].hp - DAMAGE <= 0)
              => /\ players'[q].hp = 0
                 /\ players'[q].active = 0
                 /\ players'[q].socket_fd = NoFd
                 /\ \E c \in 0 .. MaxConns : <<Was.players[q].socket_fd, c>> \in ev'.closes
                 /\ ev'.nb = 1
                 /\ ev'.shown[q].active = 0
                 /\ ~ListedInMsg(LastMsg', q)
                 /\ q \notin ev'.rslots
                 /\ Was.conn[q] = 0 \/ Was.conn[q] \notin ev'.rcpt
         /\ player_count' = Was.count
              - Cardinality({ q \in Slots : Was.players[q].active = 1
                                            /\ players'[q].active = 0 }) ]_vars

\* C7 witness: an ATTACK has just killed: the target is at hp 0, freed, its
\* descriptor closed, and the attacker got the broadcast.
C7_Witness ==
  /\ ev.op = "attack"
  /\ ev.nb = 1
  /\ ev.pruned = {}
  /\ ev.closes # {}
  /\ ev.rcpt # {}
  /\ \E q \in ev.hits : players[q].hp = 0 /\ players[q].active = 0 /\ q # ev.slot

\* C8: a connection that arrives while all four slots are active gets the
\* server-full reply and is closed; no slot changes and nothing is broadcast.
C8_FullServerRejects ==
  /\ [][ (ev'.op \in {"join", "reject"} /\ \A i \in Slots : Was.players[i].active = 1)
         => /\ mainT'.pc = "full"
            /\ players' = Was.players
            /\ player_count' = MAX_PLAYERS
            /\ ev'.nb = 0 ]_vars
  /\ [][ (ev'.op = "refuse" /\ mainT.pc = "full")
         => /\ ev'.reply = "full"
            /\ players' = players
            /\ ev'.nb = 0 ]_vars
  /\ [][ ev'.op = "refuse_close" => ~IsOpen(fdtab', mainT.client_fd) ]_vars

\* Connection c holds slot i: the slot is active on a descriptor open on c.
Holds(c, i) == players[i].active = 1 /\ ConnOfSlot(i) = c

\* The last step ended a critical section that broadcast a message without
\* slot i to every session still in the game.
AnnouncedGone(i) ==
  /\ ev.nb = 1
  /\ ~ListedInMsg(LastMsg, i)
  /\ \A j \in ActiveSlots : ConnOfSlot(j) \in ev.rcpt

\* socket_fd = -1.
C10_FreeSlotHasNoDescriptor ==
  state_lock = NoHolder =>
    \A i \in Slots : players[i].active = 0 => players[i].socket_fd = NoFd

\* The replies that go to the caller alone.
CallerOnlyReplies == CallerOnlyErrors \cup {"full", "welcome"}

\* C11: every caller-only reply (usage, invalid direction, out of bounds,
\* obstacle, occupied cell, no targets adjacent, unknown command, server full,
\* welcome) is sent while the sending thread does not hold state_lock.
C11_RepliesSentUnlocked ==
  ev.reply \in CallerOnlyReplies => ~ev.locked

\* C12: the 'no slot available' branch of the accept path is never taken.
C12_NoSlotBranchUnreachable ==
  ev.reply # "noslot"

\* C13: an accepted join occupies the lowest-index slot with active = 0, sets
\* its hp to MAX_HP, stores the new descriptor, places it on a cell that is no
\* obstacle and not the position of another active slot, adds exactly 1 to
\* player_count, leaves every other slot's position and hp unchanged, and
\* broadcasts once.
C13_JoinOccupiesLowestFreeSlot ==
  [][ ev'.op = "join"
      => LET i == ev'.slot
         IN  /\ Was.players[i].active = 0
             /\ \A j \in Slots : j < i => Was.players[j].active = 1
             /\ players'[i].hp = MAX_HP
             /\ players'[i].active = 1
             /\ players'[i].socket_fd = mainT.client_fd
             /\ InBounds(players'[i].row, players'[i].col)
             /\ <<players'[i].row, players'[i].col>> \notin obstacles
             /\ \A j \in Slots \ {i} :
                  /\ Was.players[j].active = 1
                       => <<Was.players[j].row, Was.players[j].col>>
                            # <<players'[i].row, players'[i].col>>
                  /\ players'[j].row = Was.players[j].row
                  /\ players'[j].col = Was.players[j].col
                  /\ players'[j].hp = Was.players[j].hp
             /\ player_count' = Was.count + 1
             /\ ev'.nb = 1 ]_vars

\* C13 as amended: an accepted join occupies the lowest-index slot with
\* active = 0, sets its hp to MAX_HP, places it on a cell that is no obstacle
\* and not the position of another active slot, leaves every other slot's
\* position and hp unchanged, and broadcasts once, the snapshot showing the
\* new slot active at MAX_HP on its cell; when the critical section ends the
\* slot is active on the new descriptor unless the join's own broadcast has
\* pruned it (then it is free, with no descriptor), and player_count is 1
\* more than before less the number of slots that broadcast has pruned.
C13_JoinOccupiesThenMayPrune ==
  [][ ev'.op = "join"
      => LET i == ev'.slot
         IN  /\ Was.players[i].active = 0
             /\ \A j \in Slots : j < i => Was.players[j].active = 1
             /\ players'[i].hp = MAX_HP
             /\ IF i \in ev'.pruned
                  THEN players'[i].active = 0 /\ players'[i].socket_fd = NoFd
                  ELSE players'[i].active = 1 /\ players'[i].socket_fd = mainT.client_fd
             /\ InBounds(players'[i].row, players'[i].col)
             /\ <<players'[i].row, players'[i].col>> \notin obstacles
             /\ \A j \in Slots \ {i} :
                  /\ Was.players[j].active = 1
                       => <<Was.players[j].row, Was.players[j].col>>
                            # <<players'[i].row, players'[i].col>>
                  /\ players'[j].row = Was.players[j].row
                  /\ players'[j].col = Was.players[j].col
                  /\ players'[j].hp = Was.players[j].hp
             /\ player_count' = Was.count + 1 - Cardinality(ev'.pruned)
             /\ ev'.nb = 1
             /\ ev'.shown[i] = [active |-> 1, row |-> players'[i].row,
                                col |-> players'[i].col, hp |-> MAX_HP] ]_vars

\* C13 witness: a join has just occupied a slot and stays in the game, and
\* its own broadcast has pruned another slot.
C13_Witness ==
  /\ ev.op = "join"
  /\ ev.nb = 1
  /\ ev.pruned # {}
  /\ ev.slot \notin ev.pruned
  /\ players[ev.slot].active = 1

\* The rule of the fifth hit: an ATTACK takes a target above DAMAGE down by
\* DAMAGE and leaves it in the game (unless the broadcast of the attack prunes
\* it), and frees a target at DAMAGE with hp 0.
FifthHitFrees ==
  [][ ev'.op = "attack"
      => \A j \in ev'.hits :
           IF Was.players[j].hp > DAMAGE
             THEN /\ players'[j].hp = Was.players[j].hp - DAMAGE
                  /\ players'[j].active = 1 \/ j \in ev'.pruned
             ELSE /\ players'[j].hp = 0
                  /\ players'[j].active = 0 ]_vars

\* C14: in every reachable state every slot's hp is in 0 .. MAX_HP and every
\* active slot's hp is one of 20, 40, 60, 80, 100; a slot that joined at 100
\* stays in the game through its first four hits and is freed on exactly the
\* fifth.
C14_HealthInRange ==
  /\ [](\A i \in Slots :
          /\ players[i].hp \in 0 .. MAX_HP
          /\ players[i].active = 1 => players[i].hp \in {20, 40, 60, 80, 100})
  /\ FifthHitFrees

\* C14 as amended: in every reachable state every slot's hp is in 0 .. MAX_HP;
\* whenever state_lock is not held, every active slot's hp is one of 20, 40,
\* 60, 80, 100; a slot that joined at 100 stays in the game through its first
\* four hits and is freed on exactly the fifth.  (Under the lock a join's slot
\* is active before its hp is set, and a dying target is at hp 0 before it is
\* freed.)
C14_HealthInRangeUnlocked ==
  /\ [](\A i \in Slots : players[i].hp \in 0 .. MAX_HP)
  /\ [](state_lock = NoHolder
          => \A i \in Slots :
               players[i].active = 1 => players[i].hp \in {20, 40, 60, 80, 100})
  /\ FifthHitFrees

\* C14 witness: an ATTACK has just landed the fourth hit on a slot, which
\* stays in the game at hp 20.
C14_Witness ==
  /\ ev.op = "attack"
  /\ ev.nb = 1
  /\ \E j \in ev.hits : players[j].active = 1 /\ players[j].hp = 20

\* C15: the check-then-act of MOVE is atomic: when a thread holds state_lock
\* for a MOVE, its target is one step in the named direction from the
\* position its slot has at that moment, so no other thread wrote the
\* position between the read and the commit.
C15_MoveTargetFromLockedPosition ==
  \A t \in Conns :
    (th[t].pc = "m_check" /\ state_lock = t)
      => /\ th[t].newR = players[th[t].player_index].row + DeltaR(th[t].dir)
         /\ th[t].newC = players[th[t].player_index].col + DeltaC(th[t].dir)

\* Thread t (MainId for the accept loop) is at a pthread_mutex_lock.
WaitsForLock(t) ==
  IF t = MainId THEN mainT.pc \in {"join", "create_fail"} ELSE th[t].pc \in LockPcs

\* The frame of thread id after the step.
FrNext(id) == IF id = MainId THEN mainT' ELSE th'[id]

\* C16: state_lock has at most one holder and passes on only through a
\* release; every write to players[] and player_count is a step of the thread
\* that holds the lock; every acquisition, on every path, is followed by a
\* release; and no thread waits for a lock that never comes free: a free lock
\* with threads waiting is taken, and once the clients fall silent every
\* waiting thread gets the lock.
C16_LockDiscipline ==
  /\ [][ state_lock # NoHolder => state_lock' \in {state_lock, NoHolder} ]_vars
  /\ [][ (players' # players \/ player_count' # player_count)
           => /\ state_lock \in Threads
              /\ state_lock' = state_lock
              /\ \A u \in Threads \ {state_lock} : FrNext(u) = Fr(u) ]_vars
  /\ \A t \in 0 .. LiveConns : (state_lock = t) ~> (state_lock = NoHolder)
  /\ (state_lock = NoHolder /\ \E t \in 0 .. LiveConns : WaitsForLock(t))
       ~> (state_lock # NoHolder)
  /\ \A t \in 0 .. LiveConns : (Quiet /\ WaitsForLock(t)) ~> (state_lock = t)

\* C16 witness: a handler thread holds state_lock for a MOVE while another
\* handler thread waits for it.
C16_Witness ==
  \E t, u \in Conns :
    /\ t # u
    /\ state_lock = t
    /\ th[t].pc \in {"m_check", "m_col"}
    /\ WaitsForLock(u)

\* The removal of slot i from roster pl.
FreeApplied(pl, i) == [pl EXCEPT ![i].socket_fd = NoFd, ![i].active = 0]

\* One hit of an attack on slot q of roster pl.
HitApplied(pl, q) ==
  IF Dead(pl[q].hp - DAMAGE)
    THEN [pl EXCEPT ![q].hp = 0, ![q].socket_fd = NoFd, ![q].active = 0]
    ELSE [pl EXCEPT ![q].hp = @ - DAMAGE]

\* A whole attack from (attackerR, attackerC) by slot idx on roster pl, from
\* slot q on.
RECURSIVE AttackApplied(_, _, _, _, _)
AttackApplied(pl, idx, attackerR, attackerC, q) ==
  IF q >= MAX_PLAYERS THEN pl
  ELSE IF pl[q].active = 1 /\ q # idx
          /\ Adjacent(pl[q].row - attackerR, pl[q].col - attackerC)
    THEN AttackApplied(HitApplied(pl, q), idx, attackerR, attackerC, q + 1)
    ELSE AttackApplied(pl, idx, attackerR, attackerC, q + 1)

\* The roster a complete application of the command of the critical section
\* in progress leaves, computed in one piece from the roster as it was when
\* the lock was taken.
CompleteApplication ==
  LET w == Was.players
      i == cs.sum.slot
  IN  CASE cs.sum.op = "move" ->
             [w EXCEPT ![i].row = th[cs.sum.t].newR, ![i].col = th[cs.sum.t].newC]
        [] cs.sum.op = "attack" -> AttackApplied(w, i, w[i].row, w[i].col, 0)
        [] cs.sum.op \in {"quit", "disc"} -> FreeApplied(w, i)
        [] cs.sum.op = "join" ->
             [w EXCEPT ![i] = [row |-> players[i].row, col |-> players[i].col,
                               hp |-> MAX_HP, socket_fd |-> mainT.client_fd,
                               active |-> 1]]
        [] OTHER -> w

\* The numbers of sequence s rise strictly: s is a subsequence of 1, 2, 3, ...
Rising(s) == \A a, b \in 1 .. Len(s) : a < b => s[a] < s[b]

\* Two snapshots that are both in s and in u come in the same order in both.
SameOrder(s, u) ==
  \A a, b \in 1 .. Len(s) : \A k, l \in 1 .. Len(u) :
    (a < b /\ s[a] = u[k] /\ s[b] = u[l]) => k < l

\* C17: every snapshot is rendered by the holder of state_lock from the
\* roster a complete application of its command leaves (never from a partly
\* applied move, attack, join or leave), the snapshots being numbered in the
\* order they are rendered, which is the order of the lock; the snapshots
\* delivered to any one connection are a subsequence of that sequence, and
\* two connections that both get two given snapshots get them in the same
\* order.
C17_SnapshotsInLockOrder ==
  /\ [][ cs'.sum.nb = cs.sum.nb + 1
           => /\ state_lock = cs.sum.t
              /\ cs'.sum.snap = log.seq + 1
              /\ Shown(players) = Shown(CompleteApplication)
              /\ cs'.sum.shown = Shown(players) ]_vars
  /\ [](\A c \in Conns : Rising(log.got[c]))
  /\ [](\A c, d \in Conns : SameOrder(log.got[c], log.got[d]))

\* C18: when the disconnect path or the end-of-session cleanup of the thread
\* of one connection runs on a slot that is active on the descriptor of a
\* different connection, it leaves the slot's active flag and player_count
\* unchanged.
C18_OldThreadSparesNewOccupant ==
  [][ (/\ ev'.op \in {"disc", "cleanup"}
       /\ Was.players[ev'.slot].active = 1
       /\ Was.conn[ev'.slot] \notin {0, ev'.t})
      => /\ players'[ev'.slot].active = 1
         /\ player_count' = Was.count ]_vars

\* C19: every close of a descriptor number hits the number while it is still
\* open (no handle is closed a second time), and the close of the
\* end-of-session cleanup hits the connection of the terminating thread, never
\* a number that has gone to a newer connection.
C19_HandleClosedOnce ==
  \A r \in ev.closes :
    r[1] # NoFd =>
      /\ r[2] # 0
      /\ ev.op = "close" => r[2] = ev.t

\* C20: a MOVE or ATTACK processed for a slot that is no longer in the game
\* (active = 0) changes no slot's hp or position and broadcasts nothing.
C20_FreedSlotCommandsDoNothing ==
  [][ (ev'.op \in {"move", "attack"} /\ Was.players[ev'.slot].active = 0)
      => /\ \A j \in Slots : /\ players'[j].hp = Was.players[j].hp
                              /\ players'[j].row = Was.players[j].row
                              /\ players'[j].col = Was.players[j].col
         /\ ev'.nb = 0 ]_vars

====
